---- MODULE Spec2Model ----
(***************************************************************************)
(* Code-smell detector: the tree queries of CodeSmellDetector              *)
(* (smell_detector.py) and the metrics, detectors and orchestration of     *)
(* PrimitiveCodeSmellDetector (Primitive_code_smells_detector.py).         *)
(*                                                                         *)
(* A syntax-tree node is a record                                          *)
(*   [type, text, start_point, end_point, children]                        *)
(* with start_point = <<row, column>> and children a sequence of nodes,    *)
(* as the parser library hands them to the code.  Python's node.x[0] is    *)
(* x[1] here.                                                              *)
(*                                                                         *)
(* A character string handled by split_identifier is a sequence of         *)
(* characters: a printable ASCII character other than the grave accent is  *)
(* the one-character string, tab, newline, form feed and carriage return   *)
(* are "\t", "\n", "\f" and "\r", and any other character is the name of   *)
(* its code point ("U+00C9").                                              *)
(*                                                                         *)
(* The outcome of a Python call that may raise is the value returned or    *)
(* the exception raised, which propagates through every caller that does   *)
(* not catch it.                                                           *)
(*                                                                         *)
(* The two tree walks recurse once per tree level, and the interpreter     *)
(* raises RecursionError when a walk would go deeper than its recursion    *)
(* limit allows.  `frames` is the number of levels the interpreter still   *)
(* allows a walk when it starts: the recursion limit (1000 unless the      *)
(* embedding program changes it) less the levels in use.  A call of the    *)
(* walk takes one level; the call of max in calculate_nesting_depth takes  *)
(* two below its caller.  The other calls of bounded depth (a detector     *)
(* calling a metric, a constructor) fit wherever the walk does.            *)
(***************************************************************************)
EXTENDS Integers, Sequences, FiniteSets, TLC

VARIABLES
    node,       \* the definition node handed to a metric or a detector
    frames,     \* the tree levels the recursion limit allows a walk to visit
    stdout,     \* the state of the interpreter's standard output
    call,       \* the last metric / detector invocation and its outcome
    prev,       \* the invocation before it
    files,      \* the source units of a directory run, in rglob order
    config,     \* the per-detector thresholds the caller wishes to apply
    pos,        \* analyze_directory: number of units already iterated over
    results,    \* analyze_directory: the results dict (unit index -> smells)
    pc,         \* analyze_directory: "idle", "running", "done" or "raised"
    words,      \* the word list an identifier is spelled from
    split       \* what split_identifier returned for its spellings

vars == <<node, frames, stdout, call, prev, files, config, pos, results, pc, words, split>>

\* The value of a variable no operation has written yet.
Idle == [op |-> "idle"]

\* Python's None, as returned by a detector that found nothing.
None == [none |-> TRUE]

Returned(value) == [raised |-> FALSE, value |-> value]
Raised(exception) == [raised |-> TRUE, exception |-> exception]

\* what a call came to: the value it returned or the exception it raised
ResultOf(outcome) == IF outcome.raised THEN outcome.exception ELSE outcome.value

(***************************************************************************)
(* Syntax-tree nodes                                                       *)
(***************************************************************************)
Node(type, text, start_point, end_point, children) ==
    [type |-> type, text |-> text, start_point |-> start_point,
     end_point |-> end_point, children |-> children]

Leaf(type, text, row, col) == Node(type, text, <<row, col>>, <<row, col>>, <<>>)

(***************************************************************************)
(* smell_detector.py                                                       *)
(***************************************************************************)
RECURSIVE traverse(_, _)
RECURSIVE traverse_children(_, _, _)

\* for child in node.children: traverse(child), from child i on.  An
\* exception raised for a child ends the loop.
traverse_children(children, i, frames_left) ==
    IF i > Len(children) THEN Returned(<<>>)
    ELSE LET first == traverse(children[i], frames_left)
         IN  IF first.raised THEN first
             ELSE LET rest == traverse_children(children, i + 1, frames_left)
                  IN  IF rest.raised THEN rest
                      ELSE Returned(first.value \o rest.value)

\* The closure traverse of get_function_nodes: the nodes the call
\* traverse(n) appends to the list `functions`, in the order it appends
\* them, or the RecursionError the interpreter raises when the call would
\* exceed the recursion limit.
traverse(n, frames_left) ==
    IF frames_left < 1 THEN Raised("RecursionError")
    ELSE LET below == traverse_children(n.children, 1, frames_left - 1)
         IN  IF below.raised THEN below
             ELSE Returned((IF n.type = "function_definition" THEN <<n>> ELSE <<>>)
                               \o below.value)

\* functions = []; traverse(tree.root_node); return functions
get_function_nodes(tree, frames_left) == traverse(tree.root_node, frames_left)

RECURSIVE first_identifier_text(_, _, _)
first_identifier_text(children, i, default) ==
    IF i > Len(children) THEN default
    ELSE IF children[i].type = "identifier" THEN children[i].text
    ELSE first_identifier_text(children, i + 1, default)

get_function_name(func_node) ==
    first_identifier_text(func_node.children, 1, "unknown")

(***************************************************************************)
(* Primitive_code_smells_detector.py: metrics                              *)
(***************************************************************************)
count_lines(n) ==
    LET start_line == n.start_point[1]
        end_line   == n.end_point[1]
    IN  end_line - start_line + 1

counted_parameter_types == {"identifier", "typed_parameter", "default_parameter"}

RECURSIVE count_parameters_from(_, _)

\* A variant that counts every child of the parameter list.
count_parameters_from_all_children(children, i) ==
    IF i > Len(children) THEN 0
    ELSE IF children[i].type = "parameters"
         THEN Len(children[i].children)
    ELSE count_parameters_from(children, i + 1)

count_parameters_from(children, i) ==
    IF i > Len(children) THEN 0
    ELSE IF children[i].type = "parameters"
         THEN LET is_param(c) == c.type \in counted_parameter_types
                  params == SelectSeq(children[i].children, is_param)
              IN  Len(params)
    ELSE count_parameters_from(children, i + 1)

count_parameters(func_node) == count_parameters_from(func_node.children, 1)

nesting_nodes == {"if_statement", "for_statement", "while_statement",
                  "with_statement", "try_statement"}

\* the greatest element of a non-empty set of integers
MaxOf(S) == CHOOSE m \in S : \A x \in S : x <= m

RECURSIVE calculate_nesting_depth(_, _, _)

\* max_depth starts as current_depth and the loop raises it to each
\* child_depth in turn, so the value returned is the greatest of
\* current_depth and the child_depth of every child.  A RecursionError
\* raised for a child ends the loop and leaves the call.  max(max_depth,
\* child_depth) takes two levels below the frame that calls it, one for the
\* call of the builtin and one for the comparison inside it, so a node with
\* children needs three levels where a node without needs one.
calculate_nesting_depth(n, current_depth, frames_left) ==
    IF frames_left < 1 THEN Raised("RecursionError")
    ELSE IF n.children # <<>> /\ frames_left < 3 THEN Raised("RecursionError")
    ELSE LET child_depths ==
                 {IF n.children[i].type \in nesting_nodes
                  THEN calculate_nesting_depth(n.children[i], current_depth + 1,
                                               frames_left - 1)
                  ELSE calculate_nesting_depth(n.children[i], current_depth,
                                               frames_left - 1) :
                      i \in DOMAIN n.children}
         IN  IF \E child_depth \in child_depths : child_depth.raised
             THEN Raised("RecursionError")
             ELSE Returned(MaxOf({current_depth} \cup
                                 {child_depth.value : child_depth \in child_depths}))

(***************************************************************************)
(* Primitive_code_smells_detector.py: detectors                            *)
(***************************************************************************)
DefaultLongMethodThreshold == 50
DefaultParametersThreshold == 5
DefaultNestingThreshold == 4
LongMethodHighAbove == 100
ParametersMediumUpTo == 7
NestingHighAbove == 5

CodeSmell(smell_type, severity, location, function_name, message, details) ==
    [smell_type |-> smell_type, severity |-> severity, location |-> location,
     function_name |-> function_name, message |-> message, details |-> details]

detect_long_method(func_node, threshold) ==
    LET line_count == count_lines(func_node)
    IN  IF line_count > threshold
        THEN CodeSmell("long_method",
                       IF line_count > LongMethodHighAbove THEN "high" ELSE "medium",
                       func_node.start_point,
                       get_function_name(func_node),
                       <<"Function is ", line_count, " lines long (threshold: ",
                         threshold, ")">>,
                       [line_count |-> line_count, threshold |-> threshold])
        ELSE None

\* A variant whose medium band ends one parameter early.
detect_too_many_parameters_early_high(func_node, threshold) ==
    LET param_count == count_parameters(func_node)
    IN  IF param_count > threshold
        THEN CodeSmell("too_many_parameters",
                       IF param_count < ParametersMediumUpTo THEN "medium" ELSE "high",
                       func_node.start_point,
                       get_function_name(func_node),
                       <<"Function has ", param_count, " parameters (threshold: ",
                         threshold, ")">>,
                       [param_count |-> param_count, threshold |-> threshold])
        ELSE None

detect_too_many_parameters(func_node, threshold) ==
    LET param_count == count_parameters(func_node)
    IN  IF param_count > threshold
        THEN CodeSmell("too_many_parameters",
                       IF param_count <= ParametersMediumUpTo THEN "medium" ELSE "high",
                       func_node.start_point,
                       get_function_name(func_node),
                       <<"Function has ", param_count, " parameters (threshold: ",
                         threshold, ")">>,
                       [param_count |-> param_count, threshold |-> threshold])
        ELSE None

\* The finding detect_deep_nesting builds for a measured depth.
deep_nesting_smell(func_node, threshold, max_depth) ==
    CodeSmell("deep_nesting",
              IF max_depth > NestingHighAbove THEN "high" ELSE "medium",
              func_node.start_point,
              get_function_name(func_node),
              <<"Function has nesting depth of ", max_depth, " (threshold: ",
                threshold, ")">>,
              [nesting_depth |-> max_depth, threshold |-> threshold])

\* A variant that reports every depth other than the threshold itself.
detect_deep_nesting_not_equal(func_node, threshold, frames_left) ==
    LET max_depth == calculate_nesting_depth(func_node, 0, frames_left)
    IN  IF max_depth.raised THEN max_depth
        ELSE IF max_depth.value # threshold
        THEN Returned(deep_nesting_smell(func_node, threshold, max_depth.value))
        ELSE Returned(None)

\* The RecursionError of calculate_nesting_depth is not caught here.
detect_deep_nesting(func_node, threshold, frames_left) ==
    LET max_depth == calculate_nesting_depth(func_node, 0, frames_left)
    IN  IF max_depth.raised THEN max_depth
        ELSE IF max_depth.value > threshold
        THEN Returned(deep_nesting_smell(func_node, threshold, max_depth.value))
        ELSE Returned(None)

(***************************************************************************)
(* Primitive_code_smells_detector.py: orchestration                        *)
(*                                                                         *)
(* A source unit is [status, tree, printable]: status "ok" for a unit      *)
(* open() and read() succeed on, "missing" (open raises OSError) or        *)
(* "undecodable" (read raises UnicodeDecodeError); printable tells whether *)
(* the encoding of standard output can encode the unit's path.             *)
(*                                                                         *)
(* Standard output is "open" (it takes what is written to it), "full" (it  *)
(* writes through to a device that takes no more), "closed", or "absent"   *)
(* (sys.stdout is None).                                                   *)
(***************************************************************************)
StandardOutputs == {"open", "full", "closed", "absent"}

parse_file(file) ==
    IF file.status = "missing" THEN Raised("OSError")
    ELSE IF file.status = "undecodable" THEN Raised("UnicodeDecodeError")
    ELSE Returned(file.tree)

\* The list built at the top of the loop body of analyze_file.
detectors == <<"detect_long_method", "detect_too_many_parameters",
               "detect_deep_nesting">>

\* detector(func): the call passes the node alone, so each detector runs
\* with the default value of its threshold parameter.
call_detector(detector, func, frames_left) ==
    CASE detector = "detect_long_method" ->
             Returned(detect_long_method(func, DefaultLongMethodThreshold))
      [] detector = "detect_too_many_parameters" ->
             Returned(detect_too_many_parameters(func, DefaultParametersThreshold))
      [] detector = "detect_deep_nesting" ->
             detect_deep_nesting(func, DefaultNestingThreshold, frames_left)

RECURSIVE run_detectors(_, _, _, _)
\* for detector in detectors: smell = detector(func); if smell: append
run_detectors(func, d, smells, frames_left) ==
    IF d > Len(detectors) THEN Returned(smells)
    ELSE LET smell == call_detector(detectors[d], func, frames_left)
         IN  IF smell.raised THEN smell
             ELSE run_detectors(func, d + 1,
                                IF smell.value # None
                                THEN Append(smells, smell.value) ELSE smells,
                                frames_left)

RECURSIVE run_functions(_, _, _, _)
\* for func in functions: ...
run_functions(functions, f, smells, frames_left) ==
    IF f > Len(functions) THEN Returned(smells)
    ELSE LET after == run_detectors(functions[f], 1, smells, frames_left)
         IN  IF after.raised THEN after
             ELSE run_functions(functions, f + 1, after.value, frames_left)

\* The body of the try statement of analyze_file.
analyze_file_try(file, frames_left) ==
    LET parsed == parse_file(file)
    IN  IF parsed.raised THEN parsed
        ELSE LET functions == get_function_nodes(parsed.value, frames_left)
             IN  IF functions.raised THEN functions
                 ELSE run_functions(functions.value, 1, <<>>, frames_left)

\* print(f"Error analyzing {file_path}: {e}"): print does nothing when
\* sys.stdout is None; otherwise it writes the message to sys.stdout, which
\* raises ValueError when closed, UnicodeEncodeError when it cannot encode
\* the path, and OSError when the device takes no more.
print_error(file, sys_stdout) ==
    CASE sys_stdout = "absent" -> Returned(None)
      [] sys_stdout = "closed" -> Raised("ValueError")
      [] sys_stdout \in {"open", "full"} /\ ~file.printable ->
             Raised("UnicodeEncodeError")
      [] sys_stdout = "full" /\ file.printable -> Raised("OSError")
      [] sys_stdout = "open" /\ file.printable -> Returned(None)

\* except Exception as e: print(...); return [].  The smells collected
\* before the exception are dropped, and an exception raised by print
\* leaves the call.
analyze_file(file, frames_left, sys_stdout) ==
    LET attempt == analyze_file_try(file, frames_left)
    IN  IF ~attempt.raised THEN attempt
        ELSE LET printed == print_error(file, sys_stdout)
             IN  IF printed.raised THEN printed ELSE Returned(<<>>)

(***************************************************************************)
(* smell_detector.py: split_identifier                                     *)
(*                                                                         *)
(* The characters of the model are the printable ASCII characters U+0020  *)
(* to U+007E, the 29 whitespace characters, the Latin-1 Supplement U+00A1  *)
(* to U+00FF, the Greek and Coptic block U+0370 to U+03FF, U+0130 (capital *)
(* I with dot above) and U+0307 (combining dot above).                     *)
(***************************************************************************)
AsciiLower == <<"a", "b", "c", "d", "e", "f", "g", "h", "i", "j", "k", "l",
                "m", "n", "o", "p", "q", "r", "s", "t", "u", "v", "w", "x",
                "y", "z">>
AsciiUpper == <<"A", "B", "C", "D", "E", "F", "G", "H", "I", "J", "K", "L",
                "M", "N", "O", "P", "Q", "R", "S", "T", "U", "V", "W", "X",
                "Y", "Z">>

\* The characters past ASCII that str.lower() turns into one other
\* character, and the character it turns each into.
OtherUpper == <<"U+00C0", "U+00C1", "U+00C2", "U+00C3", "U+00C4", "U+00C5",
                "U+00C6", "U+00C7", "U+00C8", "U+00C9", "U+00CA", "U+00CB",
                "U+00CC", "U+00CD", "U+00CE", "U+00CF", "U+00D0", "U+00D1",
                "U+00D2", "U+00D3", "U+00D4", "U+00D5", "U+00D6", "U+00D8",
                "U+00D9", "U+00DA", "U+00DB", "U+00DC", "U+00DD", "U+00DE",
                "U+0370", "U+0372", "U+0376", "U+037F", "U+0386", "U+0388",
                "U+0389", "U+038A", "U+038C", "U+038E", "U+038F", "U+0391",
                "U+0392", "U+0393", "U+0394", "U+0395", "U+0396", "U+0397",
                "U+0398", "U+0399", "U+039A", "U+039B", "U+039C", "U+039D",
                "U+039E", "U+039F", "U+03A0", "U+03A1", "U+03A3", "U+03A4",
                "U+03A5", "U+03A6", "U+03A7", "U+03A8", "U+03A9", "U+03AA",
                "U+03AB", "U+03CF", "U+03D8", "U+03DA", "U+03DC", "U+03DE",
                "U+03E0", "U+03E2", "U+03E4", "U+03E6", "U+03E8", "U+03EA",
                "U+03EC", "U+03EE", "U+03F4", "U+03F7", "U+03F9", "U+03FA",
                "U+03FD", "U+03FE", "U+03FF">>
OtherLower == <<"U+00E0", "U+00E1", "U+00E2", "U+00E3", "U+00E4", "U+00E5",
                "U+00E6", "U+00E7", "U+00E8", "U+00E9", "U+00EA", "U+00EB",
                "U+00EC", "U+00ED", "U+00EE", "U+00EF", "U+00F0", "U+00F1",
                "U+00F2", "U+00F3", "U+00F4", "U+00F5", "U+00F6", "U+00F8",
                "U+00F9", "U+00FA", "U+00FB", "U+00FC", "U+00FD", "U+00FE",
                "U+0371", "U+0373", "U+0377", "U+03F3", "U+03AC", "U+03AD",
                "U+03AE", "U+03AF", "U+03CC", "U+03CD", "U+03CE", "U+03B1",
                "U+03B2", "U+03B3", "U+03B4", "U+03B5", "U+03B6", "U+03B7",
                "U+03B8", "U+03B9", "U+03BA", "U+03BB", "U+03BC", "U+03BD",
                "U+03BE", "U+03BF", "U+03C0", "U+03C1", "U+03C3", "U+03C4",
                "U+03C5", "U+03C6", "U+03C7", "U+03C8", "U+03C9", "U+03CA",
                "U+03CB", "U+03D7", "U+03D9", "U+03DB", "U+03DD", "U+03DF",
                "U+03E1", "U+03E3", "U+03E5", "U+03E7", "U+03E9", "U+03EB",
                "U+03ED", "U+03EF", "U+03B8", "U+03F8", "U+03F2", "U+03FB",
                "U+037B", "U+037C", "U+037D">>

UpperLetters == AsciiUpper \o OtherUpper
LowerLetters == AsciiLower \o OtherLower

\* The characters str.isspace() holds of: str.split() splits on each.
Whitespace == {" ", "\t", "\n", "U+000B", "\f", "\r", "U+001C", "U+001D",
               "U+001E", "U+001F", "U+0085", "U+00A0", "U+1680", "U+2000",
               "U+2001", "U+2002", "U+2003", "U+2004", "U+2005", "U+2006",
               "U+2007", "U+2008", "U+2009", "U+200A", "U+2028", "U+2029",
               "U+202F", "U+205F", "U+3000"}

\* The characters the final-sigma rule of str.lower() skips.
CaseIgnorable == {"'", ".", ":", "^", "U+0060", "U+00A8", "U+00AD", "U+00AF",
                  "U+00B4", "U+00B7", "U+00B8", "U+0374", "U+0375", "U+037A",
                  "U+0384", "U+0385", "U+0387", "U+0307"}

\* The cased characters that are neither in the tables above nor skipped.
OtherCased == {"U+00AA", "U+00B5", "U+00BA", "U+00DF", "U+00FF", "U+0390",
               "U+03B0", "U+03C2", "U+03D0", "U+03D1", "U+03D2", "U+03D3",
               "U+03D4", "U+03D5", "U+03D6", "U+03F0", "U+03F1", "U+03F5",
               "U+03FC", "U+0130"}

\* The characters the final-sigma rule takes for cased letters.
Cased == {UpperLetters[i] : i \in DOMAIN UpperLetters}
            \cup {LowerLetters[i] : i \in DOMAIN LowerLetters}
            \cup OtherCased

InRange(c, letters) == \E i \in 1..Len(letters) : letters[i] = c
IndexIn(c, letters) == CHOOSE i \in 1..Len(letters) : letters[i] = c

\* the lowercase of one character, where it is one character
lower_char(c) ==
    IF InRange(c, UpperLetters) THEN LowerLetters[IndexIn(c, UpperLetters)] ELSE c

\* A capital sigma lower-cases to the final sigma when a cased letter comes
\* before it and none after it, case-ignorable characters skipped.
lower_sigma(name, i) ==
    LET before == {j \in 1..(i - 1) : name[j] \notin CaseIgnorable}
        after  == {j \in (i + 1)..Len(name) : name[j] \notin CaseIgnorable}
        final  == /\ before # {}
                  /\ name[CHOOSE j \in before : \A k \in before : k <= j] \in Cased
                  /\ \/ after = {}
                     \/ name[CHOOSE j \in after : \A k \in after : j <= k] \notin Cased
    IN  IF final THEN "U+03C2" ELSE "U+03C3"

RECURSIVE lower_from(_, _)
lower_from(name, i) ==
    IF i > Len(name) THEN <<>>
    ELSE (IF name[i] = "U+03A3" THEN <<lower_sigma(name, i)>>
          ELSE IF name[i] = "U+0130" THEN <<"i", "U+0307">>
          ELSE <<lower_char(name[i])>>) \o lower_from(name, i + 1)

\* str.lower()
lower(name) == lower_from(name, 1)

\* name.replace('_', ' ')
replace_underscores(name) ==
    [i \in 1..Len(name) |-> IF name[i] = "_" THEN " " ELSE name[i]]

RECURSIVE sub_camel_from(_, _)
\* re.sub('([a-z])([A-Z])', r'\1 \2', name): the leftmost match from
\* position i is replaced and the scan resumes after the match.  The two
\* classes are ranges of code points: they hold the ASCII letters only.
sub_camel_from(name, i) ==
    IF i > Len(name) THEN <<>>
    ELSE IF i < Len(name) /\ InRange(name[i], AsciiLower)
                          /\ InRange(name[i + 1], AsciiUpper)
         THEN <<name[i], " ", name[i + 1]>> \o sub_camel_from(name, i + 2)
    ELSE <<name[i]>> \o sub_camel_from(name, i + 1)

sub_camel(name) == sub_camel_from(name, 1)

RECURSIVE split_from(_, _, _, _)
\* str.split(): the maximal runs of non-whitespace characters, in order.
\* word is the run being read, out the runs completed so far.
split_from(name, i, word, out) ==
    IF i > Len(name)
    THEN IF word = <<>> THEN out ELSE Append(out, word)
    ELSE IF name[i] \in Whitespace
         THEN split_from(name, i + 1, <<>>,
                         IF word = <<>> THEN out ELSE Append(out, word))
    ELSE split_from(name, i + 1, Append(word, name[i]), out)

str_split(name) == split_from(name, 1, <<>>, <<>>)

split_identifier(name) == str_split(lower(sub_camel(replace_underscores(name))))

(***************************************************************************)
(* Identifiers: the inputs of split_identifier                             *)
(***************************************************************************)
MaxWordLen == 2
MaxWords == 3
MaxNameLen == 2

\* lowercase letters words are spelled with
Alphabet == {"a", "b", "U+00E9"}
Words == UNION {[1..n -> Alphabet] : n \in 1..MaxWordLen}
WordLists == UNION {[1..k -> Words] : k \in 1..MaxWords}

\* Characters of the kinds split_identifier tells apart, and the names
\* spelled with them.
NameCharacters == {"a", "A", "_", "\t", "U+00C9", "U+03A3", "U+0130"}
Names == UNION {[1..n -> NameCharacters] : n \in 0..MaxNameLen}

upper_char(c) ==
    IF InRange(c, LowerLetters) THEN UpperLetters[IndexIn(c, LowerLetters)] ELSE c
Capitalised(w) == <<upper_char(w[1])>> \o SubSeq(w, 2, Len(w))

RECURSIVE SnakeCase(_)
\* the words joined by '_'
SnakeCase(ws) ==
    IF Len(ws) = 1 THEN ws[1]
    ELSE ws[1] \o <<"_">> \o SnakeCase(Tail(ws))

RECURSIVE CamelTail(_)
CamelTail(ws) == IF ws = <<>> THEN <<>> ELSE Capitalised(ws[1]) \o CamelTail(Tail(ws))
\* the first word, then every later word capitalised
CamelCase(ws) == ws[1] \o CamelTail(Tail(ws))

(***************************************************************************)
(* Specification SpecSplit: split_identifier applied to both spellings of  *)
(* a word list, or to a name as it stands (the one spelling of a list of   *)
(* one word).                                                              *)
(***************************************************************************)
NoTree     == node = Idle /\ frames = 0 /\ call = Idle /\ prev = Idle
NoRun      == /\ files = <<>> /\ config = Idle /\ stdout = "open"
              /\ pos = 0 /\ results = <<>> /\ pc = "idle"
NoSplit    == words = <<>> /\ split = <<>>

SplitInit ==
    /\ words \in WordLists \cup {<<name>> : name \in Names}
    /\ split = <<>> /\ NoTree /\ NoRun

SplitSnake ==
    /\ words # <<>>
    /\ split' = [s \in DOMAIN split \cup {"snake"} |->
                    IF s = "snake" THEN split_identifier(SnakeCase(words)) ELSE split[s]]
    /\ UNCHANGED <<node, frames, stdout, call, prev, files, config, pos, results, pc, words>>

SplitCamel ==
    /\ words # <<>>
    /\ split' = [s \in DOMAIN split \cup {"camel"} |->
                    IF s = "camel" THEN split_identifier(CamelCase(words)) ELSE split[s]]
    /\ UNCHANGED <<node, frames, stdout, call, prev, files, config, pos, results, pc, words>>

SplitNext == SplitSnake \/ SplitCamel
SpecSplit == SplitInit /\ [][SplitNext]_vars

\* words is a non-empty list of non-empty lowercase words.
LowercaseWords == words \in WordLists

\* C6: for every non-empty list of non-empty lowercase words,
\* split_identifier of the snake_case spelling and of the camelCase spelling
\* both return the original word list.
C6_SameWordList ==
    LowercaseWords => \A s \in DOMAIN split : split[s] = words

\* Every word is spelled in a-z, and every word other than the first and the
\* last has at least two letters.
InnerWordsLong ==
    /\ \A i \in DOMAIN words : \A k \in DOMAIN words[i] : InRange(words[i][k], AsciiLower)
    /\ \A i \in 2..(Len(words) - 1) : Len(words[i]) >= 2

\* Where the two spellings do agree: when the words are spelled in a-z and
\* every word other than the first and the last has at least two letters,
\* each capital of the camelCase spelling follows a lowercase letter and the
\* substitution finds it.  A single-letter inner word capitalises to one
\* capital, so the capital of the next word follows a capital and no
\* boundary is inserted before it; a capital outside A-Z, or one that
\* follows a letter outside a-z, is not matched at all.
SameWordListInnerLong == (LowercaseWords /\ InnerWordsLong) => C6_SameWordList

(***************************************************************************)
(* Small trees: every ordered tree of at most MaxNodes nodes whose root is *)
(* a function definition and whose other nodes take their kind from a      *)
(* given set.  The metrics below read kinds and children only, so every    *)
(* node sits at <<0, 0>>.                                                  *)
(***************************************************************************)
MaxNodes == 4

\* The nodes of a tree numbered in pre-order, the root 1: parent[i] is then
\* node i - 1 or one of its ancestors.
RECURSIVE IsAncestorOrSelf(_, _, _)
IsAncestorOrSelf(parent, a, d) ==
    d = a \/ (d > 1 /\ IsAncestorOrSelf(parent, a, parent[d]))

PreorderParents(n) ==
    {parent \in [2..n -> 1..(n - 1)] :
        \A i \in 2..n : parent[i] < i /\ IsAncestorOrSelf(parent, parent[i], i - 1)}

RECURSIVE BuildNode(_, _, _, _)
BuildNode(parent, kind, n, i) ==
    LET IsChild(j) == j > 1 /\ parent[j] = i
        ch == SelectSeq([k \in 1..n |-> k], IsChild)
    IN  Node(IF i = 1 THEN "function_definition" ELSE kind[i], "", <<0, 0>>, <<0, 0>>,
             [c \in 1..Len(ch) |-> BuildNode(parent, kind, n, ch[c])])

\* node is some definition of at most MaxNodes nodes with kinds from `kinds`
IsDefinitionOver(n0, kinds) ==
    \E n \in 1..MaxNodes : \E parent \in PreorderParents(n) : \E kind \in [2..n -> kinds] :
        n0 = BuildNode(parent, kind, n, 1)

ControlKinds == {"if_statement", "for_statement", "while_statement", "with_statement",
                 "try_statement", "block", "function_definition", "class_definition"}
SignatureKinds == {"parameters", "identifier", "typed_parameter", "default_parameter",
                   "list_splat_pattern", "block"}


RECURSIVE Height(_)
\* the number of levels of a tree: 1 for a node without children
Height(n) == 1 + MaxOf({0} \cup {Height(n.children[i]) : i \in DOMAIN n.children})

\* the levels calculate_nesting_depth takes on a tree: the deepest call of
\* max is made from the level above the deepest one
DepthLevels(n) == IF n.children = <<>> THEN 1 ELSE Height(n) + 1

(***************************************************************************)
(* Specification SpecMetrics: the metric calculators applied to a          *)
(* definition node, by a caller that has frames for the depth walk of any  *)
(* tree of the model, for a walk of two or three levels only, or for as    *)
(* many levels as the highest tree has.                                    *)
(***************************************************************************)
MetricsInit ==
    /\ IsDefinitionOver(node, ControlKinds) \/ IsDefinitionOver(node, SignatureKinds)
    /\ frames \in {2, 3, MaxNodes, MaxNodes + 1}
    /\ call = Idle /\ prev = Idle /\ NoRun /\ NoSplit

Measured(op, outcome) ==
    [op |-> op, raised |-> outcome.raised, result |-> ResultOf(outcome)]

CountLines ==
    /\ node # Idle
    /\ call' = Measured("count_lines", Returned(count_lines(node)))
    /\ UNCHANGED <<node, frames, stdout, prev, files, config, pos, results, pc, words, split>>

CountParameters ==
    /\ node # Idle
    /\ call' = Measured("count_parameters", Returned(count_parameters(node)))
    /\ UNCHANGED <<node, frames, stdout, prev, files, config, pos, results, pc, words, split>>

CalculateNestingDepth ==
    /\ node # Idle
    /\ call' = Measured("calculate_nesting_depth",
                        calculate_nesting_depth(node, 0, frames))
    /\ UNCHANGED <<node, frames, stdout, prev, files, config, pos, results, pc, words, split>>

MetricsNext == CountLines \/ CountParameters \/ CalculateNestingDepth
SpecMetrics == MetricsInit /\ [][MetricsNext]_vars

\* The paths of a tree: the sequences of child indexes leading from its root
\* to a node, the empty path leading to the root itself.
RECURSIVE Paths(_)
Paths(n) ==
    {<<>>} \cup UNION {{<<i>> \o p : p \in Paths(n.children[i])} : i \in DOMAIN n.children}

RECURSIVE NodeAt(_, _)
NodeAt(n, p) == IF p = <<>> THEN n ELSE NodeAt(n.children[p[1]], Tail(p))

ControlStructureKinds == {"if_statement", "for_statement", "while_statement",
                          "with_statement", "try_statement"}

\* The number of control structures on the path p below the root of n, the
\* root itself not counted.
ControlStructuresOn(n, p) ==
    Cardinality({k \in 1..Len(p) :
                    NodeAt(n, SubSeq(p, 1, k)).type \in ControlStructureKinds})

DeepestPath(n) ==
    CHOOSE m \in {ControlStructuresOn(n, p) : p \in Paths(n)} :
        \A p \in Paths(n) : ControlStructuresOn(n, p) <= m

\* C4: calculate_nesting_depth of a definition node returns the maximum, over
\* the paths from the node to its descendants, of the number of if / for /
\* while / with / try nodes on the path, the definition node itself
\* excluded; nested definitions do not reset the count.
C4_DepthIsMaxOverPaths ==
    call.op = "calculate_nesting_depth" =>
        (~call.raised /\ call.result = DeepestPath(node))

\* Whenever the walk returns, it returns that maximum; it raises only for a
\* tree whose walk takes more levels than the recursion limit allows.
DepthIsMaxOverPathsWithinLimit ==
    call.op = "calculate_nesting_depth" =>
        IF DepthLevels(node) <= frames
        THEN ~call.raised /\ call.result = DeepestPath(node)
        ELSE call.raised /\ call.result = "RecursionError"

ParameterKinds == {"identifier", "typed_parameter", "default_parameter"}

ParameterLists(n) == {i \in DOMAIN n.children : n.children[i].type = "parameters"}

ParametersOf(n) ==
    IF ParameterLists(n) = {} THEN 0
    ELSE LET first == CHOOSE i \in ParameterLists(n) : \A j \in ParameterLists(n) : i <= j
             list  == n.children[first]
         IN  Cardinality({j \in DOMAIN list.children :
                             list.children[j].type \in ParameterKinds})

\* C5: count_parameters is the number of direct children of the node's
\* (first) parameter list that are a plain, a type-annotated or a defaulted
\* parameter, and 0 when the node has no parameter list; it raises nothing.
C5_CountsThreeKinds ==
    call.op = "count_parameters" =>
        (~call.raised /\ call.result = ParametersOf(node))

\* A parameter list with a counted and an uncounted child has been counted.
C5_Witness ==
    /\ call.op = "count_parameters" /\ call.result = 1
    /\ \E i \in ParameterLists(node) : Len(node.children[i].children) = 2

\* A definition node without a parameter list counted as 0.
C5_WitnessNoList ==
    /\ call.op = "count_parameters" /\ call.result = 0
    /\ ParameterLists(node) = {} /\ node.children # <<>>

(***************************************************************************)
(* Laid-out definitions: function definitions as the parser returns them   *)
(* for source text, each statement on lines of its own.  A tree is built   *)
(* at row 0 and moved to its place with Shift.                             *)
(***************************************************************************)
MaxParams == 8
MaxNest == 6
MaxExtra == 100

RECURSIVE Shift(_, _, _)
RECURSIVE ShiftAll(_, _, _)
ShiftAll(ns, rows, cols) ==
    IF ns = <<>> THEN <<>>
    ELSE <<Shift(ns[1], rows, cols)>> \o ShiftAll(Tail(ns), rows, cols)

\* n moved down by rows and right by cols
Shift(n, rows, cols) ==
    Node(n.type, n.text,
         <<n.start_point[1] + rows, n.start_point[2] + cols>>,
         <<n.end_point[1] + rows, n.end_point[2] + cols>>,
         ShiftAll(n.children, rows, cols))

Rows(n) == n.end_point[1] - n.start_point[1] + 1

ControlCycle == <<"if_statement", "for_statement", "while_statement",
                  "with_statement", "try_statement">>
ParameterCycle == <<"identifier", "typed_parameter", "default_parameter">>

\* A parameter of the given kind with the children the grammar gives it.
Parameter(kind) ==
    IF kind = "identifier" THEN Leaf("identifier", "a", 0, 0)
    ELSE Node(kind, "", <<0, 0>>, <<0, 0>>,
              <<Leaf("identifier", "a", 0, 0),
                Leaf(IF kind \in {"typed_parameter", "typed_default_parameter"}
                     THEN ":" ELSE "=", "", 0, 0),
                Leaf(IF kind \in {"typed_parameter", "typed_default_parameter"}
                     THEN "type" ELSE "integer", "", 0, 0)>>)

RECURSIVE Separated(_)
\* the parameters with a "," leaf between neighbours
Separated(ps) ==
    IF Len(ps) <= 1 THEN ps
    ELSE <<ps[1], Leaf(",", "", 0, 0)>> \o Separated(Tail(ps))

\* "(" p1 "," ... ")": p counted parameters and, with star, a *args and a
\* typed defaulted parameter after them.
ParameterList(p, star) ==
    LET counted == [i \in 1..p |-> Parameter(ParameterCycle[((i - 1) % 3) + 1])]
        others  == IF star
                   THEN <<Leaf("list_splat_pattern", "", 0, 0),
                          Parameter("typed_default_parameter")>>
                   ELSE <<>>
    IN  Node("parameters", "", <<0, 0>>, <<0, 0>>,
             <<Leaf("(", "", 0, 0)>> \o Separated(counted \o others)
                 \o <<Leaf(")", "", 0, 0)>>)

RECURSIVE Nested(_, _)
\* d control structures, one per line, each holding the next in its block,
\* the innermost holding `inner`.
Nested(d, inner) ==
    IF d = 0 THEN inner
    ELSE LET body  == Shift(Nested(d - 1, inner), 1, 4)
             block == Node("block", "", body.start_point, body.end_point, <<body>>)
         IN  Node(ControlCycle[((d - 1) % 5) + 1], "", <<0, 0>>, block.end_point,
                  <<Leaf("keyword", "", 0, 0), block>>)

\* def name(parameters): a chain of d control structures around `inner`,
\* then one statement spanning `extra` lines.
Function(name, has_parameters, p, star, d, extra, inner) ==
    LET chain == Shift(Nested(d, inner), 1, 4)
        last  == chain.end_point[1]
        tail  == IF extra = 0 THEN <<>>
                 ELSE <<Node("expression_statement", "", <<last + 1, 4>>,
                             <<last + extra, 4>>, <<>>)>>
        block == Node("block", "", chain.start_point, <<last + extra, 4>>,
                      <<chain>> \o tail)
    IN  Node("function_definition", "", <<0, 0>>, block.end_point,
             <<Leaf("def", "", 0, 0)>>
               \o (IF name = "" THEN <<>> ELSE <<Leaf("identifier", name, 0, 0)>>)
               \o (IF has_parameters THEN <<ParameterList(p, star)>> ELSE <<>>)
               \o <<block>>)

Pass == Leaf("pass_statement", "", 0, 0)

(***************************************************************************)
(* Specification SpecDetect: the three detectors invoked on a definition   *)
(* node with thresholds the caller passes.                                 *)
(***************************************************************************)
LongMethodThresholds ==
    {-1, 0, 3, DefaultLongMethodThreshold - 1, DefaultLongMethodThreshold,
     DefaultLongMethodThreshold + 1, LongMethodHighAbove, LongMethodHighAbove + 1}
ParametersThresholds == (-1)..MaxParams
NestingThresholds == (-1)..MaxNest

\* Lengths of the trailing statement that put the line span of a definition
\* on, just below and just above the values the detector compares it with.
ExtraLines ==
    {0, 1, DefaultLongMethodThreshold - 4, DefaultLongMethodThreshold - 3,
     DefaultLongMethodThreshold - 2, LongMethodHighAbove - 4, LongMethodHighAbove - 3,
     LongMethodHighAbove - 2, MaxExtra}

\* The caller has frames for the depth walk of the tree, or for the levels
\* of the tree only.
DetectInit ==
    /\ \/ \E p \in 0..MaxParams, d \in 0..1 :
             node = Function("f", TRUE, p, FALSE, d, 0, Pass)
       \/ \E p \in 0..1, d \in 0..MaxNest :
             node = Function("f", TRUE, p, FALSE, d, 0, Pass)
       \/ \E p \in 0..MaxParams : node = Function("f", TRUE, p, TRUE, 1, 0, Pass)
       \/ \E e \in ExtraLines : node = Function("f", TRUE, 1, FALSE, 1, e, Pass)
       \/ node = Function("", FALSE, 0, FALSE, 0, 0, Pass)
    /\ frames \in {Height(node), DepthLevels(node)}
    /\ call = Idle /\ prev = Idle /\ NoRun /\ NoSplit

Invocation(op, threshold, outcome) ==
    [op |-> op, threshold |-> threshold,
     raised |-> outcome.raised, result |-> ResultOf(outcome)]

DetectLongMethod ==
    /\ node # Idle
    /\ \E threshold \in LongMethodThresholds :
          call' = Invocation("detect_long_method", threshold,
                             Returned(detect_long_method(node, threshold)))
    /\ prev' = call
    /\ UNCHANGED <<node, frames, stdout, files, config, pos, results, pc, words, split>>

DetectTooManyParameters ==
    /\ node # Idle
    /\ \E threshold \in ParametersThresholds :
          call' = Invocation("detect_too_many_parameters", threshold,
                             Returned(detect_too_many_parameters(node, threshold)))
    /\ prev' = call
    /\ UNCHANGED <<node, frames, stdout, files, config, pos, results, pc, words, split>>

DetectDeepNesting ==
    /\ node # Idle
    /\ \E threshold \in NestingThresholds :
          call' = Invocation("detect_deep_nesting", threshold,
                             detect_deep_nesting(node, threshold, frames))
    /\ prev' = call
    /\ UNCHANGED <<node, frames, stdout, files, config, pos, results, pc, words, split>>

DetectNext == DetectLongMethod \/ DetectTooManyParameters \/ DetectDeepNesting
SpecDetect == DetectInit /\ [][DetectNext]_vars

IsDetection(c) == c.op \in {"detect_long_method", "detect_too_many_parameters",
                            "detect_deep_nesting"}

\* the invocation returned a finding
Found(c) == ~c.raised /\ c.result # None

\* the invocation returned, and returned no finding
NothingFound(c) == ~c.raised /\ c.result = None

\* the number of lines from the first line of n to its last
LineSpan(n) == n.end_point[1] - n.start_point[1] + 1

\* The value a detector is to measure on n.
MeasureOf(op, n) ==
    CASE op = "detect_long_method" -> LineSpan(n)
      [] op = "detect_too_many_parameters" -> ParametersOf(n)
      [] op = "detect_deep_nesting" -> DeepestPath(n)

SmellTypeOf(op) ==
    CASE op = "detect_long_method" -> "long_method"
      [] op = "detect_too_many_parameters" -> "too_many_parameters"
      [] op = "detect_deep_nesting" -> "deep_nesting"

\* C1: each detector returns a finding (of its own type) if and only if the
\* measured value is strictly greater than the threshold, and returns no
\* finding when the value equals the threshold or lies below it.
C1_FindingIffAboveThreshold ==
    IsDetection(call) =>
        IF MeasureOf(call.op, node) > call.threshold
        THEN Found(call) /\ call.result.smell_type = SmellTypeOf(call.op)
        ELSE NothingFound(call)

\* Whenever a detector returns, it returns a finding iff the measured value
\* is strictly greater than the threshold.
FindingIffAboveThresholdWhenReturned ==
    (IsDetection(call) /\ ~call.raised) =>
        IF MeasureOf(call.op, node) > call.threshold
        THEN Found(call) /\ call.result.smell_type = SmellTypeOf(call.op)
        ELSE NothingFound(call)

\* C2: under the default thresholds 50, 5 and 4 a finding is high iff the
\* line span exceeds 100, the parameter count exceeds 7 or the depth exceeds
\* 5 respectively, and medium otherwise; never low.
C2_SeverityUnderDefaults ==
    (IsDetection(call) /\ Found(call)) =>
        /\ (call.op = "detect_long_method" /\ call.threshold = 50) =>
              call.result.severity =
                  IF LineSpan(node) > 100 THEN "high" ELSE "medium"
        /\ (call.op = "detect_too_many_parameters" /\ call.threshold = 5) =>
              call.result.severity =
                  IF ParametersOf(node) > 7 THEN "high" ELSE "medium"
        /\ (call.op = "detect_deep_nesting" /\ call.threshold = 4) =>
              call.result.severity =
                  IF DeepestPath(node) > 5 THEN "high" ELSE "medium"

\* A function of exactly 7 parameters reported as medium under threshold 5.
C2_Witness ==
    /\ IsDetection(call) /\ call.op = "detect_too_many_parameters"
    /\ call.threshold = 5 /\ ParametersOf(node) = 7
    /\ Found(call) /\ call.result.severity = "medium"

\* A function of depth 5 and one of depth 6 reported under threshold 4.
C2_WitnessDepth ==
    /\ IsDetection(call) /\ call.op = "detect_deep_nesting"
    /\ call.threshold = 4 /\ DeepestPath(node) = 6
    /\ Found(call) /\ call.result.severity = "high"

\* C9: a detector given a negative threshold fails with a configuration
\* error instead of measuring the node and returning a finding or None.
C9_NegativeThresholdRejected ==
    (IsDetection(call) /\ call.threshold < 0) =>
        (call.raised /\ call.result # "RecursionError")

\* C10: when a detector is invoked again on the same node with a strictly
\* greater threshold, a finding at the greater threshold implies a finding
\* at the smaller one.
C10_RaisingThresholdOnlyRemoves ==
    (IsDetection(call) /\ IsDetection(prev) /\ prev.op = call.op
        /\ prev.threshold < call.threshold /\ Found(call))
    => Found(prev)

\* The threshold of a detector was raised and the finding remained.
C10_Witness ==
    /\ IsDetection(call) /\ IsDetection(prev) /\ prev.op = call.op
    /\ call.op = "detect_deep_nesting"
    /\ prev.threshold < call.threshold
    /\ Found(prev) /\ Found(call)

(***************************************************************************)
(* Source units: modules of laid-out definitions, and units that cannot be *)
(* read.                                                                   *)
(***************************************************************************)
MaxFiles == 3

RECURSIVE Stacked(_, _, _)
\* the statements one below the other from line `row` on, indented by cols
Stacked(ns, row, cols) ==
    IF ns = <<>> THEN <<>>
    ELSE <<Shift(ns[1], row, cols)>> \o Stacked(Tail(ns), row + Rows(ns[1]), cols)

Module(ns) ==
    LET body == Stacked(ns, 0, 0)
    IN  Node("module", "", <<0, 0>>,
             IF body = <<>> THEN <<0, 0>> ELSE body[Len(body)].end_point, body)

\* class C: with the given statements as its body
Class(ns) ==
    LET body  == Stacked(ns, 1, 4)
        block == Node("block", "", body[1].start_point, body[Len(body)].end_point, body)
    IN  Node("class_definition", "", <<0, 0>>, block.end_point,
             <<Leaf("class", "", 0, 0), Leaf("identifier", "C", 0, 6), block>>)

\* A definition of p parameters, d nested control structures around `inner`
\* and a trailing statement of e lines, profile = <<p, d, e>>.
Def(name, profile, inner) ==
    Function(name, TRUE, profile[1], FALSE, profile[2], profile[3], inner)

\* Nothing reported by default; above lower thresholds only; medium on all
\* three counts; high on all three counts.
Profiles ==
    {<<1, 1, 0>>,
     <<DefaultParametersThreshold - 1, DefaultNestingThreshold - 1,
       DefaultLongMethodThreshold - 20>>,
     <<DefaultParametersThreshold + 1, DefaultNestingThreshold + 1,
       DefaultLongMethodThreshold - 1>>,
     <<ParametersMediumUpTo + 1, NestingHighAbove + 1, LongMethodHighAbove>>}

\* The pairs of profiles of a definition and one placed inside it: those
\* whose control structures, taken together, are no deeper than the deepest
\* profile.
NestedProfiles ==
    {ab \in Profiles \X Profiles : ab[1][2] + ab[2][2] <= NestingHighAbove + 1}

Readable(root) == [status |-> "ok", tree |-> [root_node |-> root], printable |-> TRUE]
Unreadable(status) == [status |-> status, tree |-> None, printable |-> TRUE]
\* the unit at a path standard output cannot encode
Unprintable(unit) == [unit EXCEPT !.printable = FALSE]

\* Two definitions side by side, as the methods of a class, or the second
\* inside the innermost block of the first.
TwoDefinitions(shape, a, b) ==
    CASE shape = "siblings" -> Module(<<Def("first", a, Pass), Def("second", b, Pass)>>)
      [] shape = "methods"  -> Module(<<Class(<<Def("first", a, Pass),
                                                Def("second", b, Pass)>>)>>)
      [] shape = "nested"   -> Module(<<Def("outer", a, Def("inner", b, Pass))>>)

ReadableUnits ==
    {Readable(Module(<<>>)),
     Readable(Module(<<Def("first", <<DefaultParametersThreshold + 1, 0, 0>>, Pass)>>)),
     Readable(TwoDefinitions("nested", <<0, DefaultNestingThreshold, 0>>,
                             <<ParametersMediumUpTo + 1, 1, DefaultLongMethodThreshold>>))}

DirectoryUnits ==
    {Unreadable("missing"), Unreadable("undecodable"),
     Unprintable(Unreadable("undecodable"))} \cup ReadableUnits

\* The thresholds a caller may wish to apply: the defaults, a stricter and a
\* more lenient set.
ThresholdProfiles ==
    {[long_method |-> DefaultLongMethodThreshold,
      too_many_parameters |-> DefaultParametersThreshold,
      deep_nesting |-> DefaultNestingThreshold],
     [long_method |-> DefaultLongMethodThreshold - 30,
      too_many_parameters |-> DefaultParametersThreshold - 2,
      deep_nesting |-> DefaultNestingThreshold - 2],
     [long_method |-> 2 * LongMethodHighAbove,
      too_many_parameters |-> MaxParams + 2,
      deep_nesting |-> MaxNest + 2]}

DefaultThresholds ==
    [long_method |-> DefaultLongMethodThreshold,
     too_many_parameters |-> DefaultParametersThreshold,
     deep_nesting |-> DefaultNestingThreshold]

(***************************************************************************)
(* Specification SpecAnalyze: analyze_file on one unit (as main does for a *)
(* file) and analyze_directory over the units of a directory, one loop     *)
(* iteration per step.  The caller has frames for every level of the       *)
(* unit's tree or for every level but the deepest; in a directory run, for *)
(* the tree of one of the units.  Standard output is in any of its states. *)
(***************************************************************************)
AnalyzeInit ==
    /\ \/ /\ \E unit \in {Readable(TwoDefinitions(shape, a, b)) :
                              shape \in {"siblings", "methods"},
                              a \in Profiles, b \in Profiles}
                          \cup {Readable(TwoDefinitions("nested", ab[1], ab[2])) :
                                   ab \in NestedProfiles} :
                /\ \/ files = <<unit>>
                   \/ files = <<Unprintable(unit)>>
                /\ frames \in {Height(unit.tree.root_node) - 1,
                               Height(unit.tree.root_node)}
          /\ config \in ThresholdProfiles
       \/ /\ \E n \in 0..MaxFiles : files \in [1..n -> DirectoryUnits]
          /\ frames \in {Height(unit.tree.root_node) : unit \in ReadableUnits}
          /\ config = DefaultThresholds
    /\ stdout \in StandardOutputs
    /\ pos = 0 /\ results = <<>> /\ pc = "idle"
    /\ node = Idle /\ call = Idle /\ prev = Idle /\ NoSplit

\* smells = detector.analyze_file(target)
AnalyzeFile ==
    /\ \E i \in DOMAIN files :
          LET outcome == analyze_file(files[i], frames, stdout)
          IN  call' = [op |-> "analyze_file", unit |-> i,
                       raised |-> outcome.raised, result |-> ResultOf(outcome)]
    /\ UNCHANGED <<node, frames, stdout, prev, files, config, pos, results, pc, words, split>>

\* analyze_directory up to its loop: results = {}
DirectoryStart ==
    /\ pc = "idle"
    /\ pc' = "running" /\ pos' = 0 /\ results' = <<>>
    /\ UNCHANGED <<node, frames, stdout, call, prev, files, config, words, split>>

\* One iteration of `for py_file in path.rglob('*.py')`.  The dict is keyed
\* by the unit's path, here its index in the iteration order.  An exception
\* analyze_file raises is not caught: it leaves analyze_directory.
DirectoryNextFile ==
    /\ pc = "running" /\ pos < Len(files)
    /\ LET outcome == analyze_file(files[pos + 1], frames, stdout)
           smells  == outcome.value
       IN  IF outcome.raised
           THEN pc' = "raised" /\ UNCHANGED <<pos, results>>
           ELSE /\ results' = IF smells # <<>>
                              THEN [i \in DOMAIN results \cup {pos + 1} |->
                                       IF i = pos + 1 THEN smells ELSE results[i]]
                              ELSE results
                /\ pos' = pos + 1
                /\ UNCHANGED pc
    /\ UNCHANGED <<node, frames, stdout, call, prev, files, config, words, split>>

\* return results
DirectoryReturn ==
    /\ pc = "running" /\ pos = Len(files)
    /\ pc' = "done"
    /\ UNCHANGED <<node, frames, stdout, call, prev, files, config, pos, results, words, split>>

AnalyzeNext == AnalyzeFile \/ DirectoryStart \/ DirectoryNextFile \/ DirectoryReturn
SpecAnalyze == AnalyzeInit /\ [][AnalyzeNext]_vars

\* p comes before q in pre-order: p is a proper prefix of q, or p turns to an
\* earlier child where the two part.
PathBefore(p, q) ==
    \/ Len(p) < Len(q) /\ SubSeq(q, 1, Len(p)) = p
    \/ \E k \in 1..Len(p) :
          /\ k <= Len(q)
          /\ SubSeq(p, 1, k - 1) = SubSeq(q, 1, k - 1)
          /\ p[k] < q[k]

FunctionPaths(root) == {p \in Paths(root) : NodeAt(root, p).type = "function_definition"}

\* The function definitions of a tree in pre-order.
FunctionsInPreorder(root) ==
    LET fp == FunctionPaths(root)
        Rank(p) == Cardinality({q \in fp : PathBefore(q, p)}) + 1
    IN  [i \in 1..Cardinality(fp) |-> NodeAt(root, CHOOSE p \in fp : Rank(p) = i)]

\* What the three detectors return for f under thresholds t when nothing
\* cuts them short, in the order long-method, too-many-parameters,
\* deep-nesting, None left out.
FindingsFor(f, t) ==
    LET IsFinding(x) == x # None
    IN  SelectSeq(<<detect_long_method(f, t.long_method),
                    detect_too_many_parameters(f, t.too_many_parameters),
                    detect_deep_nesting(f, t.deep_nesting, DepthLevels(f)).value>>,
                  IsFinding)

RECURSIVE Flattened(_)
Flattened(ss) == IF ss = <<>> THEN <<>> ELSE ss[1] \o Flattened(Tail(ss))

ExpectedFindings(root, t) ==
    LET fs == FunctionsInPreorder(root)
    IN  Flattened([i \in 1..Len(fs) |-> FindingsFor(fs[i], t)])

\* C3: for every tree, analyze_file returns the non-empty detector results
\* over all function definitions of the tree in pre-order, within a
\* definition in the order long-method, too-many-parameters, deep-nesting,
\* with at most one finding per definition and detector.
C3_FindingsInTraversalOrder ==
    (call.op = "analyze_file" /\ files[call.unit].status = "ok") =>
        /\ ~call.raised
        /\ call.result =
               ExpectedFindings(files[call.unit].tree.root_node, DefaultThresholds)
        /\ \A i, j \in DOMAIN call.result :
              (call.result[i].location = call.result[j].location
                  /\ call.result[i].smell_type = call.result[j].smell_type) => i = j

\* Printing the error message of unit i returns.
PrintReturns(i) ==
    stdout = "absent" \/ (stdout = "open" /\ files[i].printable)

\* For a tree within the recursion limit analyze_file returns exactly those
\* findings; for a higher tree it returns the empty sequence when printing
\* the message returns, and raises what print raises otherwise.
FindingsInTraversalOrderWithinLimit ==
    (call.op = "analyze_file" /\ files[call.unit].status = "ok") =>
        LET unit == files[call.unit]
        IN  IF Height(unit.tree.root_node) <= frames
            THEN /\ ~call.raised
                 /\ call.result = ExpectedFindings(unit.tree.root_node, DefaultThresholds)
            ELSE IF PrintReturns(call.unit)
            THEN ~call.raised /\ call.result = <<>>
            ELSE /\ call.raised
                 /\ call.result \in {"ValueError", "UnicodeEncodeError", "OSError"}

\* The analysis of unit i fails: the unit cannot be read, or its tree has
\* more levels than the recursion limit allows.
AnalysisFails(i) ==
    \/ files[i].status # "ok"
    \/ Height(files[i].tree.root_node) > frames

UnitFindings(i) ==
    IF AnalysisFails(i) THEN <<>>
    ELSE ExpectedFindings(files[i].tree.root_node, DefaultThresholds)

\* C7: analyze_file returns an empty sequence, and raises nothing, for a
\* unit that cannot be read or whose analysis fails; a directory run never
\* aborts, and when it returns, the results hold the findings of every other
\* unit that has any and nothing else, wherever the failing units stand.
C7_FailureConfinedToUnit ==
    /\ (call.op = "analyze_file" /\ AnalysisFails(call.unit)) =>
          (~call.raised /\ call.result = <<>>)
    /\ pc # "raised"
    /\ pc = "running" =>
          \A i \in 1..pos :
              IF UnitFindings(i) # <<>>
              THEN i \in DOMAIN results /\ results[i] = UnitFindings(i)
              ELSE i \notin DOMAIN results
    /\ pc = "done" =>
          /\ pos = Len(files)
          /\ DOMAIN results = {i \in 1..Len(files) : UnitFindings(i) # <<>>}
          /\ \A i \in DOMAIN results : results[i] = UnitFindings(i)

\* The same, for runs in which printing the error message of every failing
\* unit returns.
FailureConfinedToUnitWhenPrintReturns ==
    (\A i \in DOMAIN files : AnalysisFails(i) => PrintReturns(i))
        => C7_FailureConfinedToUnit

\* A failing unit whose message cannot be printed ends the directory run:
\* no unit after it is analysed and no result is returned.
DirectoryRunAbortsWhenPrintRaises ==
    (pc \in {"running", "raised", "done"}
        /\ \E i \in DOMAIN files : AnalysisFails(i) /\ ~PrintReturns(i))
    => LET first == CHOOSE i \in DOMAIN files :
                        /\ AnalysisFails(i) /\ ~PrintReturns(i)
                        /\ \A j \in 1..(i - 1) : ~AnalysisFails(j) \/ PrintReturns(j)
       IN  pos < first /\ pc # "done"

\* The definition f is reported in smells under the given smell type.
Flagged(smells, f, smell_type) ==
    \E k \in DOMAIN smells :
        smells[k].smell_type = smell_type /\ smells[k].location = f.start_point

\* C8: the analysis applies the thresholds the caller supplies: a definition
\* is flagged by a detector in the result iff its metric exceeds the
\* caller's threshold for that detector.
C8_CallerThresholdsApplied ==
    (call.op = "analyze_file" /\ files[call.unit].status = "ok" /\ ~call.raised
        /\ Height(files[call.unit].tree.root_node) <= frames) =>
        LET root == files[call.unit].tree.root_node
        IN  \A p \in FunctionPaths(root) :
                LET f == NodeAt(root, p)
                IN  /\ Flagged(call.result, f, "long_method")
                        <=> LineSpan(f) > config.long_method
                    /\ Flagged(call.result, f, "too_many_parameters")
                        <=> ParametersOf(f) > config.too_many_parameters
                    /\ Flagged(call.result, f, "deep_nesting")
                        <=> DeepestPath(f) > config.deep_nesting

\* With the default thresholds as the caller's, the result does flag a
\* definition iff its metric exceeds the threshold.
DefaultThresholdsApplied == config = DefaultThresholds => C8_CallerThresholdsApplied

====
